---- MODULE Spec2Model ----
(***************************************************************************)
(* Model of the slip-parsing HTTP service (src/unnamed/part_000, the       *)
(* instrumented server; src/server.js is its earlier, simpler variant).    *)
(*                                                                         *)
(* Texts (the model's reply, the image payload) are sequences of           *)
(* one-character strings, so that the regular expressions, trim() and      *)
(* JSON.parse of the source work on characters here as they do there.      *)
(* JSON values are tagged records:                                         *)
(*   [t |-> "undefined"]  [t |-> "null"]  [t |-> "bool", b |-> TRUE]       *)
(*   [t |-> "num", n |-> 7]  [t |-> "str", s |-> <<"T","1">>]              *)
(*   [t |-> "obj", o |-> f]   with f a function from keys (texts) to values*)
(***************************************************************************)
EXTENDS Integers, Sequences, FiniteSets, TLC

\* ------------------------------------------------------------------------
\* Bounds of the model
\* ------------------------------------------------------------------------
NReq == 2          \* concurrent requests in flight
MaxElapsed == 1    \* largest difference between two Date.now() readings

\* ------------------------------------------------------------------------
\* Characters and texts
\* ------------------------------------------------------------------------
DQ == "\""
NL == "\n"
\* The backquote (U+0060) of a markdown fence.  A TLA+ string cannot hold that
\* character, so "~" stands for it; no text of the model uses a real tilde.
BT == "~"

Digits == {"0","1","2","3","4","5","6","7","8","9"}

LowerCase == {"a","b","c","d","e","f","g","h","i","j","k","l","m",
              "n","o","p","q","r","s","t","u","v","w","x","y","z"}

UpperCase == {"A","B","C","D","E","F","G","H","I","J","K","L","M",
              "N","O","P","Q","R","S","T","U","V","W","X","Y","Z"}

\* \w of a JavaScript regular expression
WordChars == LowerCase \cup UpperCase \cup Digits \cup {"_"}

\* \s of a JavaScript regular expression / what trim() removes / JSON
\* whitespace, restricted to the characters the model's texts are made of
WhiteSpace == {" ", NL}

DigitVal == ("0" :> 0) @@ ("1" :> 1) @@ ("2" :> 2) @@ ("3" :> 3) @@ ("4" :> 4)
            @@ ("5" :> 5) @@ ("6" :> 6) @@ ("7" :> 7) @@ ("8" :> 8) @@ ("9" :> 9)

Min(S) == CHOOSE x \in S : \A y \in S : x <= y
Max(S) == CHOOSE x \in S : \A y \in S : x >= y

Drop(s, n) == SubSeq(s, n + 1, Len(s))

StartsWith(s, p) == Len(s) >= Len(p) /\ SubSeq(s, 1, Len(p)) = p

\* String.prototype.replace(/pat/g, ""): the occurrences of the literal pat are
\* removed from left to right, each search resuming after the previous match.
RECURSIVE RemoveAll(_, _)
RemoveAll(s, pat) ==
    LET hits == {i \in 1..(Len(s) - Len(pat) + 1) :
                    s[i] = pat[1] /\ SubSeq(s, i, i + Len(pat) - 1) = pat}
    IN  IF hits = {} THEN s
        ELSE SubSeq(s, 1, Min(hits) - 1)
                 \o RemoveAll(Drop(s, Min(hits) + Len(pat) - 1), pat)

\* String.prototype.trim()
Trim(s) ==
    LET keep == {i \in 1..Len(s) : s[i] \notin WhiteSpace}
    IN  IF keep = {} THEN <<>> ELSE SubSeq(s, Min(keep), Max(keep))

\* ------------------------------------------------------------------------
\* JSON values
\* ------------------------------------------------------------------------
Undefined == [t |-> "undefined"]
Null == [t |-> "null"]
Bool(b) == [t |-> "bool", b |-> b]
Num(n) == [t |-> "num", n |-> n]
Str(s) == [t |-> "str", s |-> s]
Obj(f) == [t |-> "obj", o |-> f]
EmptyObj == Obj(<<>>)

\* property read  obj.key  (undefined when the key is absent)
Get(obj, key) == IF key \in DOMAIN obj.o THEN obj.o[key] ELSE Undefined

\* JavaScript truthiness (what !x, !!x and x || y test)
Truthy(v) ==
    CASE v.t = "undefined" -> FALSE
      [] v.t = "null" -> FALSE
      [] v.t = "bool" -> v.b
      [] v.t = "num" -> v.n # 0
      [] v.t = "str" -> v.s # <<>>
      [] v.t = "obj" -> TRUE

\* variant: x ?? null, which lets "", 0 and false through
OrNullNullish(v) == IF v.t \in {"undefined", "null"} THEN Null ELSE v

\* x || null
OrNull(v) == IF Truthy(v) THEN v ELSE Null

\* ------------------------------------------------------------------------
\* JSON.parse, on the JSON subset the model's texts can spell: objects,
\* strings without escapes, integers without fraction or exponent, and the
\* literals null, true, false.  A parse step yields
\*   [ok |-> TRUE, val |-> value, pos |-> index after the value]  or
\*   [ok |-> FALSE]   (JSON.parse throws SyntaxError).
\* ------------------------------------------------------------------------
Fail == [ok |-> FALSE]
Ok(v, p) == [ok |-> TRUE, val |-> v, pos |-> p]

At(s, i) == IF i >= 1 /\ i <= Len(s) THEN s[i] ELSE "EOF"

\* index of the first character at or after i that lies outside the set skip
\* (one past the end of s when there is none)
RECURSIVE ScanPast(_, _, _)
ScanPast(s, i, skip) ==
    IF i > Len(s) \/ s[i] \notin skip THEN i ELSE ScanPast(s, i + 1, skip)

\* index of the first character at or after i that equals c (one past the end
\* of s when there is none)
RECURSIVE ScanTo(_, _, _)
ScanTo(s, i, c) ==
    IF i > Len(s) \/ s[i] = c THEN i ELSE ScanTo(s, i + 1, c)

SkipWs(s, i) == ScanPast(s, i, WhiteSpace)

ParseString(s, i) ==
    LET j == ScanTo(s, i + 1, DQ)
    IN  IF At(s, i) # DQ \/ j > Len(s) THEN Fail
        ELSE LET body == SubSeq(s, i + 1, j - 1)
             IN  IF \E k \in 1..Len(body) : body[k] = NL THEN Fail
                 ELSE Ok(Str(body), j + 1)

RECURSIVE DigitsValue(_)
DigitsValue(ds) ==
    IF ds = <<>> THEN 0
    ELSE 10 * DigitsValue(SubSeq(ds, 1, Len(ds) - 1)) + DigitVal[ds[Len(ds)]]

ParseNumber(s, i) ==
    LET neg == At(s, i) = "-"
        b == IF neg THEN i + 1 ELSE i
        e == ScanPast(s, b, Digits)
    IN  IF e = b THEN Fail
        ELSE IF s[b] = "0"
             THEN Ok(Num(0), b + 1)
             ELSE Ok(Num((IF neg THEN -1 ELSE 1) * DigitsValue(SubSeq(s, b, e - 1))), e)

ParseLiteral(s, i, word, v) ==
    IF SubSeq(s, i, Min({Len(s), i + Len(word) - 1})) = word
    THEN Ok(v, i + Len(word)) ELSE Fail

RECURSIVE ParseValue(_, _)
RECURSIVE ParseMembers(_, _, _)

ParseObject(s, i) ==
    LET j == SkipWs(s, i + 1)
    IN  IF At(s, j) = "}" THEN Ok(EmptyObj, j + 1)
        ELSE ParseMembers(s, j, <<>>)

ParseMembers(s, i, acc) ==
    LET k == ParseString(s, i)
    IN  IF ~k.ok THEN Fail
        ELSE LET c == SkipWs(s, k.pos)
             IN  IF At(s, c) # ":" THEN Fail
                 ELSE LET v == ParseValue(s, SkipWs(s, c + 1))
                      IN  IF ~v.ok THEN Fail
                          ELSE LET n == SkipWs(s, v.pos)
                                   \* a repeated key keeps its last value
                                   acc2 == (k.val.s :> v.val) @@ acc
                               IN  IF At(s, n) = "}" THEN Ok(Obj(acc2), n + 1)
                                   ELSE IF At(s, n) = ","
                                        THEN ParseMembers(s, SkipWs(s, n + 1), acc2)
                                        ELSE Fail

ParseValue(s, i) ==
    LET c == At(s, i)
    IN  CASE c = "{" -> ParseObject(s, i)
          [] c = DQ -> ParseString(s, i)
          [] c = "-" \/ c \in Digits -> ParseNumber(s, i)
          [] c = "n" -> ParseLiteral(s, i, <<"n","u","l","l">>, Null)
          [] c = "t" -> ParseLiteral(s, i, <<"t","r","u","e">>, Bool(TRUE))
          [] c = "f" -> ParseLiteral(s, i, <<"f","a","l","s","e">>, Bool(FALSE))
          [] OTHER -> Fail

JSONparse(s) ==
    LET v == ParseValue(s, SkipWs(s, 1))
    IN  IF ~v.ok THEN Fail
        ELSE IF SkipWs(s, v.pos) = Len(s) + 1 THEN Ok(v.val, Len(s) + 1)
        ELSE Fail

\* ------------------------------------------------------------------------
\* Configuration and fixed texts of the source
\* ------------------------------------------------------------------------
MODEL == "gpt-4.1-mini"

\* Cost per 1k tokens, in millionths of a dollar (0.00015 and 0.0006 USD)
COST_PER_1K_INPUT_TOKENS == 150
COST_PER_1K_OUTPUT_TOKENS == 600

KeyBase64Image == <<"b","a","s","e","6","4","I","m","a","g","e">>
KeyTransactionId == <<"t","r","a","n","s","a","c","t","i","o","n","I","d">>
KeyToAccountNumber == <<"t","o","A","c","c","o","u","n","t","N","u","m","b","e","r">>
KeyConfidenceScore == <<"c","o","n","f","i","d","e","n","c","e","S","c","o","r","e">>
KeyRawText == <<"r","a","w","T","e","x","t">>

\* the literals of the two fence expressions /```json/g and /```/g
FenceJson == <<BT,BT,BT,"j","s","o","n">>
Fence == <<BT,BT,BT>>

\* the literal parts of /^data:image\/\w+;base64,/
DataImagePrefix == <<"d","a","t","a",":","i","m","a","g","e","/">>
Base64Marker == <<";","b","a","s","e","6","4",",">>

\* ------------------------------------------------------------------------
\* Helpers of the source
\* ------------------------------------------------------------------------

\* base64String.replace(/^data:image\/\w+;base64,/, ""): \w+ takes the whole run
\* of word characters (at least one), and ";base64," has to follow it.
StripDataUriPrefix(s) ==
    IF ~StartsWith(s, DataImagePrefix) THEN s
    ELSE LET rest == Drop(s, Len(DataImagePrefix))
             stop == {j \in 1..(Len(rest) + 1) : At(rest, j) \notin WordChars}
             w == Min(stop) - 1
         IN  IF w >= 1 /\ StartsWith(Drop(rest, w), Base64Marker)
             THEN Drop(rest, w + Len(Base64Marker))
             ELSE s

\* Math.round((n * 3) / 4 / 1024) for n >= 0: the nearest integer, halves up
RoundKB(n) == (3 * n + 2048) \div 4096

estimateImageSizeKB(base64String) == RoundKB(Len(StripDataUriPrefix(base64String)))

\* parseFloat((inputCost + outputCost).toFixed(6)), in millionths of a dollar
calcTokenCost(inputTokens, outputTokens) ==
    (inputTokens * COST_PER_1K_INPUT_TOKENS
       + outputTokens * COST_PER_1K_OUTPUT_TOKENS + 500) \div 1000

\* variant: the account number alone does not make a slip partial
deriveStatusTransactionOnly(parsed) ==
    LET hasTransaction == Truthy(Get(parsed, KeyTransactionId))
        hasAccount == Truthy(Get(parsed, KeyToAccountNumber))
    IN  IF hasTransaction /\ hasAccount THEN "complete"
        ELSE IF hasTransaction THEN "partial"
        ELSE "empty"

deriveStatus(parsed) ==
    LET hasTransaction == Truthy(Get(parsed, KeyTransactionId))
        hasAccount == Truthy(Get(parsed, KeyToAccountNumber))
    IN  IF hasTransaction /\ hasAccount THEN "complete"
        ELSE IF hasTransaction \/ hasAccount THEN "partial"
        ELSE "empty"

\* raw.replace(/```json/g, "").replace(/```/g, "").trim()
CleanReply(raw) == Trim(RemoveAll(RemoveAll(raw, FenceJson), Fence))

\* variant: the lazy match /\{[\s\S]*?\}/, which stops at the first "}"
MatchObjectLazy(cleaned) ==
    LET opens == {i \in 1..Len(cleaned) :
                     /\ cleaned[i] = "{"
                     /\ \E j \in (i + 1)..Len(cleaned) : cleaned[j] = "}"}
    IN  IF opens = {} THEN [found |-> FALSE]
        ELSE [found |-> TRUE,
              text |-> SubSeq(cleaned, Min(opens), ScanTo(cleaned, Min(opens), "}"))]

\* cleaned.match(/\{[\s\S]*\}/): the leftmost "{" that has a "}" after it, up
\* to the last "}" of the text; null when there is none.
MatchObject(cleaned) ==
    LET opens == {i \in 1..Len(cleaned) :
                     /\ cleaned[i] = "{"
                     /\ \E j \in (i + 1)..Len(cleaned) : cleaned[j] = "}"}
    IN  IF opens = {} THEN [found |-> FALSE]
        ELSE [found |-> TRUE,
              text |-> SubSeq(cleaned, Min(opens),
                              Max({j \in 1..Len(cleaned) : cleaned[j] = "}"}))]

Threw(message) == [ok |-> FALSE, error |-> message]
Returned(v) == [ok |-> TRUE, val |-> v]

\* variant: a reply without an object counts as the empty object
extractJSONLenient(raw) ==
    IF raw.t # "str" THEN Threw("TypeError")
    ELSE LET match == MatchObject(CleanReply(raw.s))
         IN  IF ~match.found THEN Returned(EmptyObj)
             ELSE LET p == JSONparse(match.text)
                  IN  IF p.ok THEN Returned(p.val) ELSE Threw("SyntaxError")

\* extractJSON(raw); raw is a JavaScript value (response.output_text)
extractJSON(raw) ==
    IF raw.t # "str" THEN Threw("TypeError")
    ELSE LET match == MatchObject(CleanReply(raw.s))
         IN  IF ~match.found THEN Threw("No JSON object found in AI response")
             ELSE LET p == JSONparse(match.text)
                  IN  IF p.ok THEN Returned(p.val) ELSE Threw("SyntaxError")

\* variant: Math.max(0, parsed.confidenceScore), the upper limit forgotten
ClampConfidenceNoCeiling(parsed) ==
    LET c == Get(parsed, KeyConfidenceScore)
    IN  IF c.t = "num" THEN Num(Max({0, c.n})) ELSE Null

\* typeof parsed.confidenceScore === "number"
\*   ? Math.min(100, Math.max(0, parsed.confidenceScore)) : null
ClampConfidence(parsed) ==
    LET c == Get(parsed, KeyConfidenceScore)
    IN  IF c.t = "num"
        THEN Num(Min({100, Max({0, c.n})}))
        ELSE Null

\* a ?? b
Nullish(a, b) == IF a.t \in {"undefined", "null"} THEN b ELSE a

\* ------------------------------------------------------------------------
\* State
\* ------------------------------------------------------------------------
VARIABLES
    pc,           \* per request: "idle", "awaitAI" (suspended at the await), "done"
    reqBody,      \* per request: req.body
    requestId,    \* per request: const requestId
    imageSizeKB,  \* per request: const imageSizeKB
    aiCalls,      \* per request: calls of openai.responses.create made so far
    response,     \* per request: what the await yielded (output_text, usage)
    parsed,       \* per request: let parsed
    sent,         \* per request: the responses written with res.status().json()
    logged,       \* per request: the entries written with log(level, event, data)
    xPc,          \* extractJSON applied on its own: "input" or "done"
    xPre,         \*   the reply is xPre \o xMid \o xPost
    xMid,
    xPost,
    xCleaned,     \*   const cleaned
    xOut          \*   what extractJSON returned or threw

vars == <<pc, reqBody, requestId, imageSizeKB, aiCalls, response, parsed, sent, logged,
          xPc, xPre, xMid, xPost, xCleaned, xOut>>

handlerVars ==
    <<pc, reqBody, requestId, imageSizeKB, aiCalls, response, parsed, sent, logged>>
extractVars == <<xPc, xPre, xMid, xPost, xCleaned, xOut>>

Requests == 1..NReq

\* `req_${Date.now()}_${Math.random().toString(36).slice(2, 7)}`: a reading of
\* the clock and a random suffix; two requests may draw the same one.
RequestIds == {"req_1700000000000_k3x9q", "req_1700000000001_a0b1c"}

\* Date.now() - startTime, Date.now() - aiStart
Elapsed == 0..MaxElapsed
\* the same, when every reading of the clock falls in one millisecond
SameMillisecond == {0}

\* ------------------------------------------------------------------------
\* The responses of POST /parse-slip
\* ------------------------------------------------------------------------
MissingImageResponse(rid, processTimeMs) ==
    [code |-> 400,
     body |-> [requestId |-> rid, status |-> "error", error |-> "Missing image",
               processTimeMs |-> processTimeMs]]

InvalidFormatResponse(rid, processTimeMs) ==
    [code |-> 500,
     body |-> [requestId |-> rid, status |-> "error",
               error |-> "Invalid AI response format",
               processTimeMs |-> processTimeMs]]

UnhandledErrorResponse(rid, processTimeMs) ==
    [code |-> 500,
     body |-> [requestId |-> rid, status |-> "error",
               error |-> "OCR processing failed",
               processTimeMs |-> processTimeMs]]

SuccessResponse(rid, obj, sizeKB, reply, processTimeMs, aiTimeMs) ==
    LET usage == Nullish(reply.usage, Obj(<<>>))
        inputTokens == Nullish(Get(usage, "input_tokens"), Num(0)).n
        outputTokens == Nullish(Get(usage, "output_tokens"), Num(0)).n
    IN  [code |-> 200,
         body |-> [requestId |-> rid,
                   status |-> deriveStatus(obj),
                   data |-> [transactionId |-> OrNull(Get(obj, KeyTransactionId)),
                             toAccountNumber |-> OrNull(Get(obj, KeyToAccountNumber)),
                             rawText |-> OrNull(Get(obj, KeyRawText))],
                   aiScore |-> ClampConfidence(obj),
                   meta |-> [processTimeMs |-> processTimeMs,
                             aiTimeMs |-> aiTimeMs,
                             imageSizeKB |-> sizeKB,
                             model |-> MODEL,
                             tokens |-> [input |-> inputTokens,
                                         output |-> outputTokens,
                                         total |-> inputTokens + outputTokens,
                                         estimatedCostUSD |->
                                             calcTokenCost(inputTokens, outputTokens)]]]]

\* log(level, event, data): the entry, with the error message of its data
LogEntry(level, event) == [level |-> level, event |-> event]
LogError(level, event, message) == [level |-> level, event |-> event, error |-> message]

Log(r, entries) == logged' = [logged EXCEPT ![r] = @ \o entries]

\* ------------------------------------------------------------------------
\* The handler of POST /parse-slip.  It runs without interruption up to the
\* await of the model call, and again from the resumption to its return.
\* ------------------------------------------------------------------------

\* res.status(..).json(..) followed by return
Respond(r, resp) ==
    /\ sent' = [sent EXCEPT ![r] = Append(@, resp)]
    /\ pc' = [pc EXCEPT ![r] = "done"]

\* variant: a module-level variable, which every invocation overwrites
SetShared(f, r, v) == [q \in DOMAIN f |-> v]

\* A const of one invocation of the handler: each invocation has its own.
SetLocal(f, r, v) == [f EXCEPT ![r] = v]

\* variant: no catch; the exception leaves the handler and nothing is sent
OuterCatchRethrow(r, rid, elapsed) ==
    /\ pc' = [pc EXCEPT ![r] = "done"]
    /\ UNCHANGED sent

\* catch (error) { ... return res.status(500).json(..) }
OuterCatch(r, rid, elapsed) ==
    \E processTimeMs \in elapsed : Respond(r, UnhandledErrorResponse(rid, processTimeMs))

\* variant: the bare body of the earlier server, { error: "Missing image" }
RejectMissingImageBare(r, rid, elapsed) ==
    Respond(r, [code |-> 400, body |-> [error |-> "Missing image"]])

\* if (!base64Image) return res.status(400).json(..)
RejectMissingImage(r, rid, elapsed) ==
    \E processTimeMs \in elapsed : Respond(r, MissingImageResponse(rid, processTimeMs))

\* await openai.responses.create(..): the call is issued and the handler suspends
CallModel(r) ==
    /\ aiCalls' = [aiCalls EXCEPT ![r] = @ + 1]
    /\ pc' = [pc EXCEPT ![r] = "awaitAI"]

\* A request arrives: the handler runs from its first line to the 400 response,
\* to an exception, or to the await.
Receive(r, bodies, elapsed) ==
    /\ pc[r] = "idle"
    /\ \E b \in bodies, rid \in RequestIds :
          LET base64Image == Get(b, KeyBase64Image)
          IN  /\ reqBody' = [reqBody EXCEPT ![r] = b]
              /\ requestId' = SetLocal(requestId, r, rid)
              /\ IF ~Truthy(base64Image)
                 THEN /\ RejectMissingImage(r, rid, elapsed)
                      /\ Log(r, <<LogEntry("INFO", "parse_slip.start"),
                                  LogEntry("WARN", "parse_slip.missing_image")>>)
                      /\ UNCHANGED <<imageSizeKB, aiCalls>>
                 ELSE IF base64Image.t # "str"
                 THEN \* base64String.replace is not a function: TypeError
                      /\ OuterCatch(r, rid, elapsed)
                      /\ Log(r, <<LogEntry("INFO", "parse_slip.start"),
                                  LogError("ERROR", "parse_slip.unhandled_error",
                                           "TypeError")>>)
                      /\ UNCHANGED <<imageSizeKB, aiCalls>>
                 ELSE /\ imageSizeKB' =
                            SetLocal(imageSizeKB, r, estimateImageSizeKB(base64Image.s))
                      /\ CallModel(r)
                      /\ Log(r, <<LogEntry("INFO", "parse_slip.start"),
                                  LogEntry("DEBUG", "parse_slip.image_received")>>)
                      /\ UNCHANGED sent
    /\ UNCHANGED <<response, parsed>>
    /\ UNCHANGED extractVars

\* The model call resolves: the handler resumes and runs to its response.
AIResolve(r, replies, elapsed) ==
    /\ pc[r] = "awaitAI"
    /\ \E reply \in replies :
          LET ex == extractJSON(reply.output_text)
          IN  /\ response' = [response EXCEPT ![r] = reply]
              /\ IF ex.ok
                 THEN /\ parsed' = [parsed EXCEPT ![r] = ex.val]
                      /\ Log(r, <<LogEntry("DEBUG", "parse_slip.ai_response_received"),
                                  LogEntry("INFO", "parse_slip.success")>>)
                      /\ \E processTimeMs \in elapsed :
                            \E aiTimeMs \in 0..processTimeMs :
                              Respond(r, SuccessResponse(requestId[r], ex.val,
                                                         imageSizeKB[r], reply,
                                                         processTimeMs, aiTimeMs))
                 ELSE /\ UNCHANGED parsed
                      /\ Log(r, <<LogEntry("DEBUG", "parse_slip.ai_response_received"),
                                  LogError("ERROR", "parse_slip.json_parse_failed",
                                           ex.error)>>)
                      /\ \E processTimeMs \in elapsed :
                            Respond(r, InvalidFormatResponse(requestId[r], processTimeMs))
    /\ UNCHANGED <<reqBody, requestId, imageSizeKB, aiCalls>>
    /\ UNCHANGED extractVars

\* variant: a rejected call is issued again
AIRejectRetry(r, elapsed) ==
    /\ pc[r] = "awaitAI"
    /\ aiCalls' = [aiCalls EXCEPT ![r] = @ + 1]
    /\ UNCHANGED <<pc, reqBody, requestId, imageSizeKB, response, parsed, sent, logged>>
    /\ UNCHANGED extractVars

\* The model call rejects (network or service error): the outer catch answers.
AIReject(r, elapsed) ==
    /\ pc[r] = "awaitAI"
    /\ OuterCatch(r, requestId[r], elapsed)
    /\ Log(r, <<LogError("ERROR", "parse_slip.unhandled_error", "model call failed")>>)
    /\ UNCHANGED <<reqBody, requestId, imageSizeKB, aiCalls, response, parsed>>
    /\ UNCHANGED extractVars

\* extractJSON applied to one text, outside any request
ExtractApply ==
    /\ xPc = "input"
    /\ xCleaned' = CleanReply(xPre \o xMid \o xPost)
    /\ xOut' = extractJSON(Str(xPre \o xMid \o xPost))
    /\ xPc' = "done"
    /\ UNCHANGED <<xPre, xMid, xPost>>
    /\ UNCHANGED handlerVars

\* ------------------------------------------------------------------------
\* Inputs: request bodies
\* ------------------------------------------------------------------------
Base64(n) == [i \in 1..n |-> "A"]

PngPrefix == <<"d","a","t","a",":","i","m","a","g","e","/","p","n","g",
               ";","b","a","s","e","6","4",",">>
SvgPrefix == <<"d","a","t","a",":","i","m","a","g","e","/","s","v","g","+","x","m","l",
               ";","b","a","s","e","6","4",",">>

\* lengths of the base64 part: on both sides of the first rounding step
\* (682 -> 0 KB, 683 -> 1 KB) and the length of the documented example
ImageLengths == {1, 682, 683, 1368}

BodyWith(v) == Obj(KeyBase64Image :> v)

\* {} and {"base64Image": v} for falsy v
MissingImageBodies ==
    {Obj(<<>>), BodyWith(Null), BodyWith(Str(<<>>)), BodyWith(Num(0)), BodyWith(Bool(FALSE))}

ImageBodies ==
    {BodyWith(Str(Base64(n))) : n \in ImageLengths}
    \cup {BodyWith(Str(PngPrefix \o Base64(n))) : n \in {682, 1368}}
    \cup {BodyWith(Str(SvgPrefix \o Base64(682)))}

\* {"base64Image": 7}: present, truthy, and no string
NonStringBodies == {BodyWith(Num(7))}

Bodies == MissingImageBodies \cup ImageBodies \cup NonStringBodies

SmallBodies == {Obj(<<>>), BodyWith(Str(Base64(1))), BodyWith(Str(PngPrefix \o Base64(683)))}

\* ------------------------------------------------------------------------
\* Inputs: replies of the model
\* ------------------------------------------------------------------------
Member(key, valueText) == <<DQ>> \o key \o <<DQ, ":">> \o valueText

RECURSIVE JoinComma(_)
JoinComma(ms) ==
    IF ms = <<>> THEN <<>>
    ELSE IF Len(ms) = 1 THEN ms[1]
    ELSE ms[1] \o <<",">> \o JoinComma(Tail(ms))

ObjectText(ms) == <<"{">> \o JoinComma(ms) \o <<"}">>

\* a member that is absent, or present with one of the value texts
Optional(key, valueTexts) == {<<>>} \cup {<<Member(key, t)>> : t \in valueTexts}

TextNull == <<"n","u","l","l">>
TextTrue == <<"t","r","u","e">>
TextEmpty == <<DQ,DQ>>
TextT1 == <<DQ,"T","1",DQ>>
TextA1 == <<DQ,"A","1",DQ>>
TextHigh == <<DQ,"h","i","g","h",DQ>>
TextX == <<DQ,"x",DQ>>

TransactionIdMembers == Optional(KeyTransactionId, {TextNull, TextEmpty, TextT1, <<"0">>})
AccountMembers == Optional(KeyToAccountNumber, {TextNull, TextEmpty, TextA1})
ConfidenceMembers ==
    Optional(KeyConfidenceScore,
             {TextNull, TextHigh, TextTrue, <<"0">>, <<"5","0">>, <<"1","0","0">>,
              <<"1","0","1">>, <<"1","5","0">>, <<"-","1">>, <<"-","5">>})
RawTextMembers == Optional(KeyRawText, {TextEmpty, TextX})

ObjectTexts ==
    {ObjectText(t \o a \o <<Member(KeyConfidenceScore, <<"5","0">>)>> \o x) :
        t \in TransactionIdMembers, a \in AccountMembers, x \in RawTextMembers}
    \cup
    {ObjectText(<<Member(KeyTransactionId, TextT1), Member(KeyToAccountNumber, TextA1)>>
                \o c) :
        c \in ConfidenceMembers}

Sure == <<"S","u","r","e","!"," ">>
Thanks == <<" ","T","h","a","n","k","s">>
Sorry == <<"S","o","r","r","y",","," ","u","n","r","e","a","d","a","b","l","e",".">>

\* replies from which no object can be taken
BrokenTexts ==
    {<<>>, Sorry, FenceJson \o <<NL>> \o Fence, <<"}", " ", "{">>, <<"{">>,
     <<"{">> \o Member(KeyTransactionId, <<>>) \o <<"}">>,
     Sorry \o <<" ", "}">>}

OutputTexts ==
    ObjectTexts
    \cup {FenceJson \o <<NL>> \o o \o <<NL>> \o Fence : o \in ObjectTexts}
    \cup {Sure \o o \o Thanks : o \in ObjectTexts}
    \cup BrokenTexts

Usages == {Undefined, Obj([input_tokens |-> Num(2000), output_tokens |-> Num(500)])}

Replies ==
    {[output_text |-> Str(t), usage |-> u] : t \in OutputTexts, u \in Usages}
    \cup {[output_text |-> Undefined, usage |-> Undefined]}

SmallReplies ==
    {[output_text |-> Str(Sure \o ObjectText(<<Member(KeyTransactionId, TextT1),
                                               Member(KeyToAccountNumber, TextA1),
                                               Member(KeyConfidenceScore, <<"1","5","0">>)>>)),
      usage |-> Obj([input_tokens |-> Num(2000), output_tokens |-> Num(500)])],
     [output_text |-> Str(ObjectText(<<Member(KeyTransactionId, TextT1)>>)),
      usage |-> Undefined],
     [output_text |-> Str(Sorry), usage |-> Undefined]}

\* pieces of the texts extractJSON is applied to on its own
SpecExample ==
    ObjectText(<<Member(KeyTransactionId, TextT1), Member(KeyToAccountNumber, TextA1)>>)

ExPres ==
    {<<>>, Sure, FenceJson \o <<NL>>, Fence \o <<NL>>, <<" ", NL>>,
     <<BT, BT>> \o FenceJson \o <<BT, " ">>, <<"}", " ">>, <<"{", " ">>}

ExMids ==
    {SpecExample,
     <<"{", "}">>,
     <<"{", " ">> \o Member(KeyRawText, <<"{", NL>> \o Member(<<"a">>, <<"-","5">>) \o <<"}">>)
        \o <<NL, "}">>,
     ObjectText(<<Member(KeyRawText, <<DQ, "a", "}", "{", "b", DQ>>)>>),
     ObjectText(<<Member(KeyTransactionId, TextT1),
                  Member(KeyRawText, <<DQ, "a", BT, BT, BT, "b", DQ>>)>>),
     ObjectText(<<Member(KeyRawText, <<DQ, BT, BT, BT, "j", "s", "o", "n", DQ>>)>>),
     ObjectText(<<Member(KeyRawText, <<DQ, BT, BT, DQ>>)>>),
     <<"{">> \o Member(KeyTransactionId, <<>>) \o <<"}">>,
     <<"{", "o", "o", "p", "s", "}">>,
     Sorry,
     <<>>,
     <<"}", "{">>}

ExPosts == {<<>>, Thanks, <<NL>> \o Fence, Fence \o <<NL, " ">>, <<" ", "}">>, <<" ", "{">>}

\* ------------------------------------------------------------------------
\* Specifications
\* ------------------------------------------------------------------------
InitHandler ==
    /\ pc = [r \in Requests |-> "idle"]
    /\ reqBody = [r \in Requests |-> Undefined]
    /\ requestId = [r \in Requests |-> "unset"]
    /\ imageSizeKB = [r \in Requests |-> 0]
    /\ aiCalls = [r \in Requests |-> 0]
    /\ response = [r \in Requests |-> Undefined]
    /\ parsed = [r \in Requests |-> Undefined]
    /\ sent = [r \in Requests |-> <<>>]
    /\ logged = [r \in Requests |-> <<>>]

ExtractOff ==
    /\ xPc = "off"
    /\ xPre = <<>>
    /\ xMid = <<>>
    /\ xPost = <<>>
    /\ xCleaned = <<>>
    /\ xOut = Undefined

\* NReq requests handled concurrently, over small sets of bodies and replies
Init == InitHandler /\ ExtractOff

Next ==
    \E r \in Requests :
        \/ Receive(r, SmallBodies, SameMillisecond)
        \/ AIResolve(r, SmallReplies, SameMillisecond)
        \/ AIReject(r, SameMillisecond)

Spec == Init /\ [][Next]_vars

\* one request, over the full sets of bodies and replies
NextSingle ==
    \/ Receive(1, Bodies, Elapsed)
    \/ AIResolve(1, Replies, Elapsed)
    \/ AIReject(1, Elapsed)

SpecSingle == Init /\ [][NextSingle]_vars

\* extractJSON on its own
InitExtract ==
    /\ InitHandler
    /\ xPc = "input"
    /\ xPre \in ExPres
    /\ xMid \in ExMids
    /\ xPost \in ExPosts
    /\ xCleaned = <<>>
    /\ xOut = Undefined

NextExtract == ExtractApply

SpecExtract == InitExtract /\ [][NextExtract]_vars

\* ------------------------------------------------------------------------
\* Properties
\* ------------------------------------------------------------------------
Done(r) == pc[r] = "done"
Image(r) == Get(reqBody[r], KeyBase64Image)
Answered(r) == Len(sent[r]) = 1
Answer(r) == sent[r][1]
Succeeded(r) == Done(r) /\ Answered(r) /\ Answer(r).code = 200
ErrorFields == {"requestId", "status", "error", "processTimeMs"}

TypeOK ==
    /\ pc \in [Requests -> {"idle", "awaitAI", "done"}]
    /\ requestId \in [Requests -> RequestIds \cup {"unset"}]
    /\ imageSizeKB \in [Requests -> Nat]
    /\ aiCalls \in [Requests -> Nat]
    /\ xPc \in {"off", "input", "done"}

\* C1: a request whose body has no base64Image, or a falsy one, is answered
\* 400 with exactly requestId, status "error", error "Missing image" and
\* processTimeMs; the body has no data field.
C1_MissingImage ==
    \A r \in Requests :
        (pc[r] # "idle" /\ ~Truthy(Image(r))) =>
            /\ Done(r)
            /\ Answered(r)
            /\ Answer(r).code = 400
            /\ DOMAIN Answer(r).body = ErrorFields
            /\ "data" \notin DOMAIN Answer(r).body
            /\ Answer(r).body.requestId = requestId[r]
            /\ Answer(r).body.status = "error"
            /\ Answer(r).body.error = "Missing image"
            /\ Answer(r).body.processTimeMs \in Nat

C1_Witness ==
    \E r \in Requests :
        /\ Done(r)
        /\ reqBody[r] = BodyWith(Str(<<>>))
        /\ Answered(r)
        /\ Answer(r).code = 400

\* C2: on every failure path (missing image, an exception before the model
\* call, a failed model call, a failed extraction) the handler itself sends
\* exactly one response, which carries this request's requestId and
\* processTimeMs; nothing is sent before the handler finishes, and no request
\* finishes unanswered.
C2_ErrorsAnswered ==
    \A r \in Requests :
        /\ ~Done(r) => sent[r] = <<>>
        /\ Done(r) =>
              /\ Answered(r)
              /\ Answer(r).code \in {200, 400, 500}
              /\ Answer(r).code # 200 =>
                    /\ Answer(r).body.requestId = requestId[r]
                    /\ requestId[r] \in RequestIds
                    /\ "processTimeMs" \in DOMAIN Answer(r).body
                    /\ Answer(r).body.processTimeMs \in Nat
                    /\ Answer(r).body.status = "error"
              \* each failure ends in an error response
              /\ ( \/ ~Truthy(Image(r))
                   \/ Image(r).t # "str"
                   \/ response[r] = Undefined
                   \/ parsed[r] = Undefined ) => Answer(r).code \in {400, 500}

C2_Witness ==
    \E r \in Requests :
        /\ Done(r)
        /\ aiCalls[r] = 1
        /\ response[r] = Undefined
        /\ Answered(r)
        /\ Answer(r).body.error = "OCR processing failed"
        /\ Answer(r).body.requestId = requestId[r]

NoOccurrence(s, pat) ==
    \A i \in 1..(Len(s) - Len(pat) + 1) : SubSeq(s, i, i + Len(pat) - 1) # pat

BraceFree(s) == \A i \in 1..Len(s) : s[i] \notin {"{", "}"}

\* the text of one valid JSON object
ValidObjectText(t) == t # <<>> /\ t[1] = "{" /\ JSONparse(t).ok

\* what extractJSON does with the cleaned text: no fence marker is left in
\* it, it is trimmed, and the text from its first "{" to its last "}" is what
\* is parsed (extraction fails when there is no such text)
ExtractMechanism ==
    LET opensAt == {i \in 1..Len(xCleaned) : xCleaned[i] = "{"}
        closesAt == {i \in 1..Len(xCleaned) : xCleaned[i] = "}"}
    IN  /\ NoOccurrence(xCleaned, Fence)
        /\ xCleaned # <<>> =>
              xCleaned[1] \notin WhiteSpace /\ xCleaned[Len(xCleaned)] \notin WhiteSpace
        /\ IF opensAt # {} /\ closesAt # {} /\ Min(opensAt) < Max(closesAt)
           THEN LET p == JSONparse(SubSeq(xCleaned, Min(opensAt), Max(closesAt)))
                IN  /\ xOut.ok = p.ok
                    /\ p.ok => xOut.val = p.val
           ELSE xOut = Threw("No JSON object found in AI response")
        /\ (xPre = Sure /\ xMid = SpecExample /\ xPost = Thanks) =>
              xOut = Returned(Obj((KeyTransactionId :> Str(<<"T", "1">>))
                                  @@ (KeyToAccountNumber :> Str(<<"A", "1">>))))

\* C3, as amended: extractJSON removes every fence marker, trims, and parses
\* the text from the first "{" to the last "}"; a reply made of brace-free
\* prose, one valid JSON object whose own text holds no fence marker, and
\* brace-free prose yields that object.
C3_ExtractJSON ==
    xPc = "done" =>
        /\ ExtractMechanism
        /\ ( /\ BraceFree(xPre)
             /\ BraceFree(xPost)
             /\ ValidObjectText(xMid)
             /\ NoOccurrence(xMid, Fence) ) => xOut = Returned(JSONparse(xMid).val)

C3_Witness ==
    /\ xPc = "done"
    /\ xPre = FenceJson \o <<NL>>
    /\ xMid = SpecExample
    /\ xPost = <<NL>> \o Fence
    /\ xOut.ok
    /\ Get(xOut.val, KeyTransactionId) = Str(<<"T", "1">>)

\* C3, as stated: extractJSON removes every fence marker, trims, and parses
\* the text from the first "{" to the last "}"; a reply made of brace-free
\* prose, one valid JSON object, and brace-free prose yields that object.
C3_Original ==
    xPc = "done" =>
        /\ ExtractMechanism
        /\ ( /\ BraceFree(xPre)
             /\ BraceFree(xPost)
             /\ ValidObjectText(xMid) ) => xOut = Returned(JSONparse(xMid).val)

\* C4: when the model's reply holds no "{", extraction fails with "no JSON
\* object found", no object is kept, and the request is answered 500 with
\* exactly requestId, status "error", an error message and processTimeMs,
\* and no data field.
C4_NoBraceReply ==
    \A r \in Requests :
        ( /\ Done(r)
          /\ response[r] # Undefined
          /\ response[r].output_text.t = "str"
          /\ \A i \in 1..Len(response[r].output_text.s) :
                 response[r].output_text.s[i] # "{" ) =>
            /\ parsed[r] = Undefined
            /\ logged[r][Len(logged[r])] =
                   LogError("ERROR", "parse_slip.json_parse_failed",
                            "No JSON object found in AI response")
            /\ Answered(r)
            /\ Answer(r).code = 500
            /\ DOMAIN Answer(r).body = ErrorFields
            /\ "data" \notin DOMAIN Answer(r).body
            /\ Answer(r).body.requestId = requestId[r]
            /\ Answer(r).body.status = "error"
            /\ Answer(r).body.error = "Invalid AI response format"
            /\ Answer(r).body.processTimeMs \in Nat

C4_Witness ==
    \E r \in Requests :
        /\ Done(r)
        /\ response[r] # Undefined
        /\ response[r].output_text = Str(Sorry)
        /\ Answered(r)
        /\ Answer(r).code = 500

\* C5: the status of a successful response is "complete" exactly when
\* transactionId and toAccountNumber are both truthy, "partial" exactly when
\* one of them is, "empty" exactly when neither is, and never anything else.
C5_DeriveStatus ==
    \A r \in Requests :
        Succeeded(r) =>
            LET tx == Truthy(Get(parsed[r], KeyTransactionId))
                ac == Truthy(Get(parsed[r], KeyToAccountNumber))
                status == Answer(r).body.status
            IN  /\ status \in {"complete", "partial", "empty"}
                /\ (status = "complete") <=> (tx /\ ac)
                /\ (status = "partial") <=> (tx # ac)
                /\ (status = "empty") <=> (~tx /\ ~ac)

C5_Witness ==
    \E r \in Requests :
        /\ Succeeded(r)
        /\ Get(parsed[r], KeyTransactionId) = Null
        /\ Get(parsed[r], KeyToAccountNumber) = Str(<<"A", "1">>)
        /\ Answer(r).body.status = "partial"

\* C6: aiScore of a successful response is null when confidenceScore is
\* absent or no number, and otherwise confidenceScore clamped into [0,100].
C6_AiScore ==
    \A r \in Requests :
        Succeeded(r) =>
            LET c == Get(parsed[r], KeyConfidenceScore)
                aiScore == Answer(r).body.aiScore
            IN  /\ c.t # "num" => aiScore = Null
                /\ c.t = "num" =>
                      /\ aiScore.t = "num"
                      /\ c.n < 0 => aiScore.n = 0
                      /\ c.n > 100 => aiScore.n = 100
                      /\ (0 <= c.n /\ c.n <= 100) => aiScore.n = c.n
                /\ aiScore = Null \/ (aiScore.t = "num" /\ aiScore.n \in 0..100)

C6_Witness ==
    \E r \in Requests :
        /\ Succeeded(r)
        /\ Get(parsed[r], KeyConfidenceScore) = Num(150)
        /\ Answer(r).body.aiScore = Num(100)

\* C7: in a successful response a data field the model left absent, null or
\* empty is null, and no data field is the empty string.
C7_NullNotEmpty ==
    \A r \in Requests :
        Succeeded(r) =>
            LET data == Answer(r).body.data
                Surfaces(key, out) ==
                    /\ Get(parsed[r], key) \in {Undefined, Null, Str(<<>>)} => out = Null
                    /\ out # Str(<<>>)
            IN  /\ Surfaces(KeyTransactionId, data.transactionId)
                /\ Surfaces(KeyToAccountNumber, data.toAccountNumber)
                /\ Surfaces(KeyRawText, data.rawText)

C7_Witness ==
    \E r \in Requests :
        /\ Succeeded(r)
        /\ Get(parsed[r], KeyRawText) = Str(<<>>)
        /\ Get(parsed[r], KeyToAccountNumber) = Undefined
        /\ Answer(r).body.data.rawText = Null
        /\ Answer(r).body.data.toAccountNumber = Null

\* C8: the model is called at most once per request, never for a request
\* rejected as missing its image, and a failed call is followed by a 500
\* response, not by another call.
C8_NoRetry ==
    \A r \in Requests :
        /\ aiCalls[r] <= 1
        /\ pc[r] = "awaitAI" => aiCalls[r] = 1
        /\ (pc[r] # "idle" /\ ~Truthy(Image(r))) => aiCalls[r] = 0
        /\ aiCalls[r] > 0 => Truthy(Image(r))
        /\ (Done(r) /\ aiCalls[r] > 0 /\ response[r] = Undefined) =>
              /\ Answered(r)
              /\ Answer(r).code = 500
              /\ Answer(r).body.error = "OCR processing failed"

C8_Witness ==
    \E r \in Requests :
        /\ Done(r)
        /\ aiCalls[r] = 1
        /\ response[r] = Undefined
        /\ Answered(r)
        /\ Answer(r).code = 500

\* the response of a request handled alone, from its body, its requestId,
\* the outcome of its model call and its two clock differences
Alone(b, rid, reply, processTimeMs, aiTimeMs) ==
    LET base64Image == Get(b, KeyBase64Image)
    IN  IF ~Truthy(base64Image) THEN MissingImageResponse(rid, processTimeMs)
        ELSE IF base64Image.t # "str" \/ reply = Undefined
        THEN UnhandledErrorResponse(rid, processTimeMs)
        ELSE LET ex == extractJSON(reply.output_text)
             IN  IF ex.ok
                 THEN SuccessResponse(rid, ex.val, estimateImageSizeKB(base64Image.s),
                                      reply, processTimeMs, aiTimeMs)
                 ELSE InvalidFormatResponse(rid, processTimeMs)

\* C9: whatever the interleaving of the requests, the response of each is
\* the one its own body, requestId and model reply give when it is handled
\* alone.
C9_Isolation ==
    \A r \in Requests :
        Done(r) =>
            /\ Answered(r)
            /\ \E processTimeMs \in Elapsed :
                  \E aiTimeMs \in 0..processTimeMs :
                    Answer(r) = Alone(reqBody[r], requestId[r], response[r],
                                      processTimeMs, aiTimeMs)

C9_Witness ==
    \E r, q \in Requests :
        /\ r # q
        /\ Succeeded(r)
        /\ Succeeded(q)
        /\ requestId[r] # requestId[q]
        /\ reqBody[r] # reqBody[q]
        /\ response[r] # response[q]
        /\ Answer(r).body.status = "complete"
        /\ Answer(q).body.status = "partial"
        /\ Answer(r).body.meta.imageSizeKB # Answer(q).body.meta.imageSizeKB

\* the payload of a data URI ("data:", a media type, ";base64", ",", payload);
\* a text that is no data URI is its own payload
AfterDataUriPrefix(s) ==
    LET commas == {i \in 1..Len(s) : s[i] = ","}
    IN  IF StartsWith(s, <<"d","a","t","a",":">>) /\ commas # {}
        THEN Drop(s, Min(commas))
        ELSE s

\* C10: meta.imageSizeKB is round(L*3/4/1024), L the length of the payload
\* after any data-URI prefix has been stripped.
C10_ImageSizeKB ==
    \A r \in Requests :
        Succeeded(r) =>
            LET L == Len(AfterDataUriPrefix(Image(r).s))
                kb == Answer(r).body.meta.imageSizeKB
            IN  \* kb is the integer nearest to 3L/4096, halves rounded up
                /\ 4096 * kb <= 3 * L + 2048
                /\ 3 * L + 2048 < 4096 * (kb + 1)

====
